---- MODULE Spec2Model ----
(***************************************************************************)
(* Model of api/server/controllers/assistants/helpers.js: the version      *)
(* resolver (getCurrentVersion), the client resolver (getOpenAIClient),    *)
(* the direct lister (listAssistants), the multi-deployment lister         *)
(* (listAssistantsForAzure) and the top-level fetch (fetchAssistants).     *)
(*                                                                         *)
(* JavaScript runs every synchronous segment to completion, so one action  *)
(* of the model is one synchronous segment: from a call or the resumption  *)
(* of an await up to the next await that suspends.  The configuration      *)
(* cache, the two client initializers and the vendor's list call are       *)
(* external: each is an await whose completion is a separate action, taken *)
(* in any order.                                                           *)
(*                                                                         *)
(* Strings the code indexes (baseUrl, version tokens) are sequences of     *)
(* one-character strings.  Endpoint names, model names and deployment      *)
(* names are only compared, and are TLA+ strings.                          *)
(***************************************************************************)
EXTENDS Integers, Sequences, FiniteSets

\* ---------------------------------------------------------------- bounds

\* Most assistant records one vendor page carries.
MaxData == 2
\* Most times the configuration cache is rewritten while a request is in flight.
MaxCacheWrites == 1

\* ------------------------------------------------------ JavaScript values

\* undefined, where the other values of the position are TLA+ strings.
undefined == "<undefined>"
\* undefined and null, where the other values are character sequences.
undefinedStr == <<"<undefined>">>
null == <<"<null>">>
\* undefined, where the other values are assistant ids.
undefinedId == <<>>

\* String(undefined), as a template literal renders it.
UndefinedText == <<"u", "n", "d", "e", "f", "i", "n", "e", "d">>

\* The decimal digits of a natural number, as a template literal renders it.
Digit(d) == <<"0", "1", "2", "3", "4", "5", "6", "7", "8", "9">>[d + 1]
RECURSIVE NumberText(_)
NumberText(n) == IF n < 10 THEN <<Digit(n)>> ELSE NumberText(n \div 10) \o <<Digit(n % 10)>>

\* a ?? b
Coalesce(a, b) == IF a # undefined THEN a ELSE b

\* Truthiness of an endpoint name: undefined and "" are falsy.
Truthy(e) == e # undefined /\ e # ""

\* Truthiness of a string or null/undefined: null, undefined and "" are falsy.
StrTruthy(s) == s # null /\ s # undefinedStr /\ Len(s) > 0

\* s.startsWith(p)
StartsWith(s, p) == Len(s) >= Len(p) /\ SubSeq(s, 1, Len(p)) = p

\* s.lastIndexOf(p): 0-based, -1 when p does not occur.
LastIndexOf(s, p) ==
  LET hits == {i \in 0..(Len(s) - Len(p)) : SubSeq(s, i + 1, i + Len(p)) = p}
  IN IF hits = {} THEN -1 ELSE CHOOSE i \in hits : \A j \in hits : j <= i

\* s.substring(a, b) for 0 <= a <= b: both ends are clamped to the length.
Substring(s, a, b) ==
  LET lo == IF a > Len(s) THEN Len(s) ELSE a
      hi == IF b > Len(s) THEN Len(s) ELSE b
  IN SubSeq(s, lo + 1, hi)

\* ------------------------------------------------------------- constants

\* EModelEndpoint.assistants, EModelEndpoint.azureAssistants
assistants == "assistants"
azureAssistants == "azureAssistants"

\* defaultAssistantsVersion: the hard-coded per-endpoint default table.
defaultAssistantsVersion == [e \in {assistants, azureAssistants} |-> IF e = assistants THEN 2 ELSE 1]

\* ------------------------------------------------------ results and errors

NoError == [name |-> "none", path |-> <<>>, value |-> <<>>]
Return(v) == [kind |-> "return", value |-> v, error |-> NoError]
Throw(e) == [kind |-> "throw", value |-> undefined, error |-> e]
Pending == [kind |-> "pending", value |-> undefined, error |-> NoError]

\* new Error(`[${req.baseUrl}] Invalid version: ${version}`)
InvalidVersion(baseUrl, version) == [name |-> "Invalid version", path |-> baseUrl, value |-> version]
\* new Error(`[${req.baseUrl}] Endpoint is required`)
EndpointRequired(baseUrl) == [name |-> "Endpoint is required", path |-> baseUrl, value |-> <<>>]
\* The TypeError of reading a property of null or undefined.
TypeError == [name |-> "TypeError", path |-> <<>>, value |-> <<>>]

\* ------------------------------------------------------ getCurrentVersion

\* Lines 14-15: the version token of the base path, or null.
PathVersion(baseUrl) ==
  LET index == LastIndexOf(baseUrl, <<"/", "v">>)
  IN IF index # -1 THEN Substring(baseUrl, index + 1, index + 3) ELSE null

\* Lines 16-18: the body's version when the path gave none.
BodyVersion(r, version) ==
  IF ~StrTruthy(version) /\ StrTruthy(r.body.version)
  THEN <<"v">> \o r.body.version
  ELSE version

\* Line 19: whether the cache fallback is taken.
ReadsCache(r, endpoint) ==
  ~StrTruthy(BodyVersion(r, PathVersion(r.baseUrl))) /\ Truthy(endpoint)

\* Lines 22-24: `v${cachedEndpointsConfig?.[endpoint]?.version ?? defaultAssistantsVersion[endpoint]}`
\* A cached configuration is a function from the endpoints it holds to their
\* entries; an entry holds a version or not (HasVersion); the missing
\* configuration is the function on no endpoint.
CacheVersion(cachedEndpointsConfig, endpoint) ==
  IF /\ endpoint \in DOMAIN cachedEndpointsConfig
     /\ cachedEndpointsConfig[endpoint].hasVersion
  THEN <<"v">> \o NumberText(cachedEndpointsConfig[endpoint].version)
  ELSE IF endpoint \in DOMAIN defaultAssistantsVersion
       THEN <<"v">> \o NumberText(defaultAssistantsVersion[endpoint])
       ELSE <<"v">> \o UndefinedText

\* Lines 26-29: the check of the resolved token, and the outcome of the call.
Validate(r, version) ==
  IF version = null
  THEN Throw(TypeError)
  ELSE IF ~StartsWith(version, <<"v">>) /\ Len(version) # 2
       THEN Throw(InvalidVersion(r.baseUrl, version))
       ELSE Return(version)

\* The outcome of getCurrentVersion when it does not read the cache.
VersionWithoutCache(r) == Validate(r, BodyVersion(r, PathVersion(r.baseUrl)))

\* The outcome of getCurrentVersion once the cache read has answered.
VersionFromCache(r, endpoint, cachedEndpointsConfig) ==
  Validate(r, CacheVersion(cachedEndpointsConfig, endpoint))

\* ------------------------------------------------------------------ inputs

\* Base paths: no '/v'; one '/v1'; two version segments; a trailing '/v'.
BaseUrls ==
  { <<"/", "a">>,
    <<"/", "a", "/", "v", "1">>,
    <<"/", "v", "1", "/", "v", "2">>,
    <<"/", "a", "/", "v">> }

\* req.body.version
BodyVersions == { undefinedStr, <<"2">>, <<"1", "0">> }

\* Endpoint names: absent, empty, the two known ones and an unrecognised one.
Endpoints == { undefined, "", assistants, azureAssistants, "custom" }

\* Contents of the configuration cache under CacheKeys.ENDPOINT_CONFIG.
NoEntryVersion == [hasVersion |-> FALSE, version |-> 0]
EntryVersion(n) == [hasVersion |-> TRUE, version |-> n]
CacheContents ==
  { [e \in {} |-> NoEntryVersion],
    [e \in {assistants, azureAssistants, "custom"} |->
       IF e = assistants THEN EntryVersion(1)
       ELSE IF e = azureAssistants THEN EntryVersion(2) ELSE EntryVersion(3)],
    [e \in {assistants, azureAssistants} |->
       IF e = assistants THEN EntryVersion(2) ELSE NoEntryVersion] }

\* azureConfig.groupMap: each group's default deployment and its ordered
\* model -> deployment table (Object.entries keeps insertion order).
groupMap ==
  [g \in {"g1", "g2", "g3"} |->
     IF g = "g1"
     THEN [deploymentName |-> "d1",
           models |-> << [name |-> "gpt-a", deploymentName |-> "d1"],
                         [name |-> "gpt-b", deploymentName |-> "d2"] >>]
     ELSE IF g = "g2"
     THEN [deploymentName |-> "d2",
           models |-> << [name |-> "gpt-c", deploymentName |-> "d1"],
                         [name |-> "gpt-d", deploymentName |-> "d2"] >>]
     ELSE [deploymentName |-> "d3",
           models |-> << [name |-> "gpt-e", deploymentName |-> "d3"] >>]]

\* azureConfig.assistantGroups
AssistantGroupsChoices == { <<"g1">>, <<"g2", "g1">> }

\* The deployment identifiers a vendor record's model field may carry.
Deployments == { "d1", "d2", "dx" }

\* req.query's paging fields (Express hands them over as strings).
PagingChoices ==
  { [limit |-> undefined, order |-> undefined, after |-> undefined, before |-> undefined],
    [limit |-> "20", order |-> "asc", after |-> "asst_1", before |-> undefined] }

\* The pages the vendor may answer call `task` with: up to MaxData records,
\* ids distinct across calls and positions, has_more set on a full page.
AssistantRecord(task, k, model) ==
  [id |-> <<task, k>>, model |-> model, object |-> "assistant"]
Page(data) ==
  [data |-> data,
   body |-> [object |-> "list", data |-> data,
             first_id |-> IF Len(data) = 0 THEN undefinedId ELSE data[1].id,
             last_id |-> IF Len(data) = 0 THEN undefinedId ELSE data[Len(data)].id,
             has_more |-> (Len(data) = MaxData)]]
VendorPages(task) ==
  { Page([k \in 1..n |-> AssistantRecord(task, k, ms[k])]) :
      n \in 0..MaxData, ms \in [1..MaxData -> Deployments] }

\* ------------------------------------------------------------------- state

VARIABLES
  req,          \* the request: baseUrl, body {version, endpoint, model}, query
  op,           \* the exported function called, and its endpoint argument
  azureConfig,  \* req.app.locals[azureOpenAI]: {groupMap, assistantGroups}
  cache,        \* the configuration cache's content
  top,          \* the activation of the exported function
  calls,        \* the activations of listAssistants, in the order started
  cacheReads,   \* cache.get calls made so far
  cacheWrites,  \* rewrites of the cache so far
  completed     \* the listAssistants activations in the order they settled

vars == <<req, op, azureConfig, cache, top, calls, cacheReads, cacheWrites, completed>>

NoInit == [name |-> "none", version |-> <<>>, model |-> undefined]
NoPage == Page(<<>>)
NoQuery == [limit |-> undefined, order |-> undefined, after |-> undefined, before |-> undefined]

\* ------------------------------------------------------- getOpenAIClient

\* Line 120: overrideEndpoint ?? req.body.endpoint ?? req.query.endpoint
ClientEndpoint(r, overrideEndpoint) ==
  Coalesce(overrideEndpoint, Coalesce(r.body.endpoint, r.query.endpoint))

\* Dispatch with a bare else: every endpoint but the direct one gets the
\* cloud-vendor initializer.
DispatchElseAzure(endpoint) ==
  IF endpoint = assistants THEN "initializeClient" ELSE "initAzureClient"

\* Lines 127-131: the initializer the endpoint selects, "none" for any other.
Dispatch(endpoint) ==
  IF endpoint = assistants THEN "initializeClient"
  ELSE IF endpoint = azureAssistants THEN "initAzureClient"
  ELSE "none"

\* The arguments an initializer is invoked with: the version getOpenAIClient
\* resolved, and req, whose body.model it finds as it is at that moment.
InitCall(name, version, r) == [name |-> name, version |-> version, model |-> r.body.model]

\* Lines 122-133, from the resumption of line 121's await with the outcome
\* gcv of getCurrentVersion: the call throws, or returns undefined, or invokes
\* an initializer and awaits it ("await", with the invocation as value).
getOpenAIClient(r, endpoint, gcv) ==
  IF gcv.kind = "throw" THEN gcv
  ELSE IF ~Truthy(endpoint) THEN Throw(EndpointRequired(r.baseUrl))
  ELSE IF Dispatch(endpoint) # "none"
       THEN [kind |-> "await", value |-> InitCall(Dispatch(endpoint), gcv.value, r),
             error |-> NoError]
       ELSE Return(undefined)

\* --------------------------------------------------------- listAssistants

\* listAssistants forcing the direct endpoint on getOpenAIClient
\* (overrideEndpoint: EModelEndpoint.assistants).
listAssistantsForcedDirect(r, version, query, group) ==
  LET endpoint == ClientEndpoint(r, assistants)
  IN [pc |-> IF ReadsCache(r, endpoint) THEN "cache" ELSE "version",
      group |-> group,
      versionArg |-> version,
      query |-> query,
      endpoint |-> endpoint,
      gcv |-> IF ReadsCache(r, endpoint) THEN Pending ELSE VersionWithoutCache(r),
      init |-> NoInit,
      listCalls |-> 0,
      listQuery |-> NoQuery,
      page |-> NoPage,
      outcome |-> Pending]

\* Lines 46-47 with 119-121 and 13-21: listAssistants called with
\* {req, res, version, query} runs, without yielding, into getOpenAIClient and
\* getCurrentVersion, up to the cache read or the await of line 121.
listAssistants(r, version, query, group) ==
  LET endpoint == ClientEndpoint(r, undefined)
  IN [pc |-> IF ReadsCache(r, endpoint) THEN "cache" ELSE "version",
      group |-> group,
      versionArg |-> version,
      query |-> query,
      endpoint |-> endpoint,
      gcv |-> IF ReadsCache(r, endpoint) THEN Pending ELSE VersionWithoutCache(r),
      init |-> NoInit,
      listCalls |-> 0,
      listQuery |-> NoQuery,
      page |-> NoPage,
      outcome |-> Pending]

\* The cache reads a sequence of freshly started activations has issued.
RECURSIVE ReadsIssued(_)
ReadsIssued(cs) ==
  IF cs = <<>> THEN 0
  ELSE (IF Head(cs).pc = "cache" THEN 1 ELSE 0) + ReadsIssued(Tail(cs))

\* ------------------------------------------------- listAssistantsForAzure

\* FanOut with the loop ending one group early.
FanOutSkipsLast(r, version, config, query) ==
  [i \in 1..(Len(config.assistantGroups) - 1) |->
     LET group == config.groupMap[config.assistantGroups[i]]
         currentModelTuples == group.models
     IN listAssistants([r EXCEPT !.body.model = currentModelTuples[1].name],
                       version, query, config.assistantGroups[i])]

\* Lines 75-86: the loop over assistantGroups.  It runs without yielding: each
\* iteration sets req.body.model to the group's first model name and starts
\* listAssistants on the request as it then is.  Yields the activations
\* started, in order.
FanOut(r, version, config, query) ==
  [i \in 1..Len(config.assistantGroups) |->
     LET group == config.groupMap[config.assistantGroups[i]]
         currentModelTuples == group.models
     IN listAssistants([r EXCEPT !.body.model = currentModelTuples[1].name],
                       version, query, config.assistantGroups[i])]

\* Line 84, after the last iteration: what req.body.model is left as.
ModelAfterFanOut(r, config) ==
  IF Len(config.assistantGroups) = 0 THEN r.body.model
  ELSE config.groupMap[config.assistantGroups[Len(config.assistantGroups)]].models[1].name

\* The calls' values in the order the calls settled.
ResolvedQueriesAsSettled(cs) == [i \in 1..Len(cs) |-> cs[completed[i]].outcome.value]

\* Line 88: Promise.all's value, the calls' values in the order of the promises.
ResolvedQueries(cs) == [i \in 1..Len(cs) |-> cs[i].outcome.value]

\* Remap with the table scan ahead of the default-deployment check.
RemapScanFirst(assistant, currentGroup) ==
  LET deploymentName == assistant.model
      currentModelTuples == currentGroup.models
      firstModel == currentModelTuples[1].name
      hits == {k \in 1..Len(currentModelTuples) :
                 currentModelTuples[k].deploymentName = deploymentName}
  IN IF hits # {}
     THEN [assistant EXCEPT
             !.model = currentModelTuples[CHOOSE k \in hits : \A j \in hits : k <= j].name]
     ELSE [assistant EXCEPT !.model = firstModel]

\* Lines 91-106: one assistant record with its model mapped back to a model name.
Remap(assistant, currentGroup) ==
  LET deploymentName == assistant.model
      currentModelTuples == currentGroup.models
      firstModel == currentModelTuples[1].name
      hits == {k \in 1..Len(currentModelTuples) :
                 currentModelTuples[k].deploymentName = deploymentName}
  IN IF currentGroup.deploymentName = deploymentName
     THEN [assistant EXCEPT !.model = firstModel]
     ELSE IF hits # {}
          THEN [assistant EXCEPT
                  !.model = currentModelTuples[CHOOSE k \in hits : \A j \in hits : k <= j].name]
          ELSE [assistant EXCEPT !.model = firstModel]

\* Lines 89-108: flatMap over the resolved queries, group i's table for query i.
RECURSIVE FlatMap(_, _, _)
FlatMap(resolvedQueries, groups, i) ==
  IF i > Len(resolvedQueries) THEN <<>>
  ELSE [k \in 1..Len(resolvedQueries[i].data) |->
          Remap(resolvedQueries[i].data[k], groups[i])]
       \o FlatMap(resolvedQueries, groups, i + 1)

\* Lines 110-116: the synthetic envelope.
Envelope(data) ==
  [first_id |-> IF Len(data) = 0 THEN undefinedId ELSE data[1].id,
   last_id |-> IF Len(data) = 0 THEN undefinedId ELSE data[Len(data)].id,
   object |-> "list",
   has_more |-> FALSE,
   data |-> data]

\* Lines 88-116: the value listAssistantsForAzure returns once every call has.
MergedList(cs, config) ==
  Envelope(FlatMap(ResolvedQueries(cs),
                   [i \in 1..Len(config.assistantGroups) |->
                      config.groupMap[config.assistantGroups[i]]],
                   1))

\* -------------------------------------------------------- fetchAssistants

\* Lines 137 and 139: the query object, with the defaults of the destructuring
\* (the default limit, the number 100, is written as the other limits are).
Query(r) ==
  [limit |-> IF r.query.limit = undefined THEN "100" ELSE r.query.limit,
   order |-> IF r.query.order = undefined THEN "desc" ELSE r.query.order,
   after |-> r.query.after,
   before |-> r.query.before]

\* -------------------------------------------------------------------- Init

Request(baseUrl, version, bodyEndpoint, queryEndpoint, paging) ==
  [baseUrl |-> baseUrl,
   body |-> [version |-> version, endpoint |-> bodyEndpoint, model |-> undefined],
   query |-> [endpoint |-> queryEndpoint, limit |-> paging.limit, order |-> paging.order,
              after |-> paging.after, before |-> paging.before]]

InitCommon ==
  /\ cache \in CacheContents
  /\ top = [pc |-> "start", endpoint |-> undefined, gcv |-> Pending,
            init |-> NoInit, outcome |-> Pending]
  /\ calls = <<>>
  /\ cacheReads = 0
  /\ cacheWrites = 0
  /\ completed = <<>>

\* A call of getCurrentVersion(req, endpoint).
InitGetCurrentVersion ==
  /\ \E baseUrl \in BaseUrls, version \in BodyVersions :
       req = Request(baseUrl, version, undefined, undefined, NoQuery)
  /\ \E endpoint \in Endpoints : op = [name |-> "getCurrentVersion", endpoint |-> endpoint]
  /\ azureConfig = [groupMap |-> groupMap, assistantGroups |-> <<"g1">>]

\* A call of getOpenAIClient({req, res, overrideEndpoint}).
InitGetOpenAIClient ==
  /\ \E baseUrl \in BaseUrls, version \in BodyVersions,
        bodyEndpoint \in {undefined, assistants, "custom"},
        queryEndpoint \in {undefined, azureAssistants} :
       req = Request(baseUrl, version, bodyEndpoint, queryEndpoint, NoQuery)
  /\ \E overrideEndpoint \in Endpoints :
       op = [name |-> "getOpenAIClient", endpoint |-> overrideEndpoint]
  /\ azureConfig = [groupMap |-> groupMap, assistantGroups |-> <<"g1">>]

\* A call of fetchAssistants(req, res).
InitFetchAssistants ==
  /\ \E baseUrl \in {<<"/", "a">>, <<"/", "a", "/", "v", "1">>},
        version \in {undefinedStr},
        bodyEndpoint \in Endpoints, queryEndpoint \in Endpoints,
        paging \in PagingChoices :
       req = Request(baseUrl, version, bodyEndpoint, queryEndpoint, paging)
  /\ op = [name |-> "fetchAssistants", endpoint |-> undefined]
  /\ \E assistantGroups \in AssistantGroupsChoices :
       azureConfig = [groupMap |-> groupMap, assistantGroups |-> assistantGroups]

Init ==
  /\ InitCommon
  /\ \/ InitGetCurrentVersion
     \/ InitGetOpenAIClient
     \/ InitFetchAssistants

\* ----------------------------------------------------------------- actions

\* The exported function is called: it runs into getCurrentVersion (line 138,
\* line 121 or the call itself) with `endpoint`, up to the cache read of line
\* 21 or, without one, up to the await of the outcome.
Start(name, endpoint) ==
  /\ op.name = name
  /\ top.pc = "start"
  /\ top' = [top EXCEPT
               !.pc = IF ReadsCache(req, endpoint) THEN "cache" ELSE "version",
               !.endpoint = endpoint,
               !.gcv = IF ReadsCache(req, endpoint) THEN Pending ELSE VersionWithoutCache(req)]
  /\ cacheReads' = cacheReads + (IF ReadsCache(req, endpoint) THEN 1 ELSE 0)
  /\ UNCHANGED <<req, op, azureConfig, cache, calls, cacheWrites, completed>>

CallGetCurrentVersion == Start("getCurrentVersion", op.endpoint)

CallGetOpenAIClient == Start("getOpenAIClient", ClientEndpoint(req, op.endpoint))

CallFetchAssistants == Start("fetchAssistants", req.query.endpoint)

\* Line 21 answers in the exported function's own getCurrentVersion.
CacheGetTop ==
  /\ top.pc = "cache"
  /\ top' = [top EXCEPT !.pc = "version",
                        !.gcv = VersionFromCache(req, top.endpoint, cache)]
  /\ UNCHANGED <<req, op, azureConfig, cache, calls, cacheReads, cacheWrites, completed>>

\* getCurrentVersion, called directly, settles.
SettleGetCurrentVersion ==
  /\ op.name = "getCurrentVersion"
  /\ top.pc = "version"
  /\ top' = [top EXCEPT !.pc = "settled", !.outcome = top.gcv]
  /\ UNCHANGED <<req, op, azureConfig, cache, calls, cacheReads, cacheWrites, completed>>

\* getOpenAIClient, called directly, resumes from line 121.
ResumeGetOpenAIClient ==
  /\ op.name = "getOpenAIClient"
  /\ top.pc = "version"
  /\ LET step == getOpenAIClient(req, top.endpoint, top.gcv)
     IN top' = IF step.kind = "await"
               THEN [top EXCEPT !.pc = "init", !.init = step.value]
               ELSE [top EXCEPT !.pc = "settled", !.outcome = step]
  /\ UNCHANGED <<req, op, azureConfig, cache, calls, cacheReads, cacheWrites, completed>>

\* The initializer getOpenAIClient awaits answers: line 133 returns its result.
InitializerDoneTop ==
  /\ top.pc = "init"
  /\ top' = [top EXCEPT !.pc = "settled", !.outcome = Return([openai |-> top.init.name])]
  /\ UNCHANGED <<req, op, azureConfig, cache, calls, cacheReads, cacheWrites, completed>>

\* fetchAssistants resumes from line 138: lines 139-151 up to the next await.
ResumeFetchAssistants ==
  /\ op.name = "fetchAssistants"
  /\ top.pc = "version"
  /\ IF top.gcv.kind = "throw"
     THEN /\ top' = [top EXCEPT !.pc = "settled", !.outcome = top.gcv]
          /\ UNCHANGED <<req, calls, cacheReads>>
     ELSE IF top.endpoint = assistants
     THEN /\ calls' = <<listAssistants(req, top.gcv.value, Query(req), undefined)>>
          /\ cacheReads' = cacheReads + ReadsIssued(calls')
          /\ top' = [top EXCEPT !.pc = "list"]
          /\ UNCHANGED req
     ELSE IF top.endpoint = azureAssistants
     THEN /\ calls' = FanOut(req, top.gcv.value, azureConfig, Query(req))
          /\ req' = [req EXCEPT !.body.model = ModelAfterFanOut(req, azureConfig)]
          /\ cacheReads' = cacheReads + ReadsIssued(calls')
          /\ top' = [top EXCEPT !.pc = "all"]
     ELSE /\ top' = [top EXCEPT !.pc = "settled", !.outcome = Return(undefined)]
          /\ UNCHANGED <<req, calls, cacheReads>>
  /\ UNCHANGED <<op, azureConfig, cache, cacheWrites, completed>>

\* Line 21 answers in the getCurrentVersion of listAssistants call i.
CacheGetCall(i) ==
  /\ calls[i].pc = "cache"
  /\ calls' = [calls EXCEPT ![i].pc = "version",
                            ![i].gcv = VersionFromCache(req, calls[i].endpoint, cache)]
  /\ UNCHANGED <<req, op, azureConfig, cache, top, cacheReads, cacheWrites, completed>>

\* The getOpenAIClient of listAssistants call i resumes from line 121.  When it
\* returns undefined, the destructuring of line 47 throws a TypeError.
ResumeCall(i) ==
  /\ calls[i].pc = "version"
  /\ LET step == getOpenAIClient(req, calls[i].endpoint, calls[i].gcv)
     IN IF step.kind = "await"
        THEN /\ calls' = [calls EXCEPT ![i].pc = "init", ![i].init = step.value]
             /\ UNCHANGED completed
        ELSE /\ calls' = [calls EXCEPT
                            ![i].pc = "settled",
                            ![i].outcome = IF step.kind = "throw" THEN step ELSE Throw(TypeError)]
             /\ completed' = Append(completed, i)
  /\ UNCHANGED <<req, op, azureConfig, cache, top, cacheReads, cacheWrites>>

\* The initializer of call i answers: line 48 issues the list call.
InitializerDoneCall(i) ==
  /\ calls[i].pc = "init"
  /\ calls' = [calls EXCEPT ![i].pc = "list",
                            ![i].listCalls = calls[i].listCalls + 1,
                            ![i].listQuery = calls[i].query]
  /\ UNCHANGED <<req, op, azureConfig, cache, top, cacheReads, cacheWrites, completed>>

\* The vendor answers call i's list call with a page: line 48 returns it.
ListDone(i) ==
  /\ calls[i].pc = "list"
  /\ \E page \in VendorPages(i) :
       calls' = [calls EXCEPT ![i].pc = "settled",
                              ![i].page = page,
                              ![i].outcome = Return(page)]
  /\ completed' = Append(completed, i)
  /\ UNCHANGED <<req, op, azureConfig, cache, top, cacheReads, cacheWrites>>

\* Line 145: the await of the one listAssistants call ends; `body` is taken
\* from its value.
DirectListDone ==
  /\ top.pc = "list"
  /\ calls[1].pc = "settled"
  /\ top' = [top EXCEPT
               !.pc = "settled",
               !.outcome = IF calls[1].outcome.kind = "throw"
                           THEN calls[1].outcome
                           ELSE Return(calls[1].outcome.value.body)]
  /\ UNCHANGED <<req, op, azureConfig, cache, calls, cacheReads, cacheWrites, completed>>

\* Line 88: Promise.all rejects as soon as one call has thrown, and resolves
\* once all have returned; lines 89-116 and 148-151 then return the merged list.
AzureListDone ==
  /\ top.pc = "all"
  /\ \/ \E i \in 1..Len(calls) :
          /\ calls[i].outcome.kind = "throw"
          /\ top' = [top EXCEPT !.pc = "settled", !.outcome = calls[i].outcome]
     \/ /\ \A i \in 1..Len(calls) : calls[i].outcome.kind = "return"
        /\ top' = [top EXCEPT !.pc = "settled",
                              !.outcome = Return(MergedList(calls, azureConfig))]
  /\ UNCHANGED <<req, op, azureConfig, cache, calls, cacheReads, cacheWrites, completed>>

\* Another part of the server rewrites the cached endpoint configuration while
\* a read of it is outstanding (a rewrite at any other time is one this code
\* cannot tell from another initial content).
CacheWrite ==
  /\ cacheWrites < MaxCacheWrites
  /\ \/ top.pc = "cache"
     \/ \E i \in 1..Len(calls) : calls[i].pc = "cache"
  /\ \E content \in CacheContents \ {cache} : cache' = content
  /\ cacheWrites' = cacheWrites + 1
  /\ UNCHANGED <<req, op, azureConfig, top, calls, cacheReads, completed>>

Next ==
  \/ CallGetCurrentVersion
  \/ CallGetOpenAIClient
  \/ CallFetchAssistants
  \/ CacheGetTop
  \/ SettleGetCurrentVersion
  \/ ResumeGetOpenAIClient
  \/ InitializerDoneTop
  \/ ResumeFetchAssistants
  \/ \E i \in 1..Len(calls) : CacheGetCall(i)
  \/ \E i \in 1..Len(calls) : ResumeCall(i)
  \/ \E i \in 1..Len(calls) : InitializerDoneCall(i)
  \/ \E i \in 1..Len(calls) : ListDone(i)
  \/ DirectListDone
  \/ AzureListDone
  \/ CacheWrite

Spec == Init /\ [][Next]_vars

\* ------------------------------------------------------------- properties

GroupOf(i) == azureConfig.groupMap[azureConfig.assistantGroups[i]]

\* fetchAssistants took the multi-deployment path and has returned its list.
AzureReturned ==
  /\ op.name = "fetchAssistants"
  /\ top.endpoint = azureAssistants
  /\ top.pc = "settled"
  /\ top.outcome.kind = "return"

\* C1: getCurrentVersion has two outcomes only: it returns a token that starts
\* with 'v' and is two characters long, or it throws 'Invalid version' with the
\* request path and the offending value (so also when path, body, cache and
\* default table all give no version).
C1_TwoOutcomes ==
  (op.name = "getCurrentVersion" /\ top.pc = "settled") =>
     IF top.outcome.kind = "return"
     THEN StartsWith(top.outcome.value, <<"v">>) /\ Len(top.outcome.value) = 2
     ELSE /\ top.outcome.error.name = "Invalid version"
          /\ top.outcome.error.path = req.baseUrl

\* C2: getCurrentVersion resolves by precedence path > body > cache > default:
\* with '/v' in the base path the result is the two characters at the last
\* '/v' and the cache is not read; else with body.version set it is
\* 'v' + body.version and the cache is not read; else, with an endpoint, the
\* cache is read once and the result is 'v' + the cached version, or 'v' + the
\* default.
C2_Precedence ==
  (op.name = "getCurrentVersion" /\ top.pc = "settled") =>
     LET index == LastIndexOf(req.baseUrl, <<"/", "v">>)
         result == top.outcome.value
     IN IF index # -1
        THEN /\ top.outcome.kind = "return"
             /\ Len(result) = 2
             /\ index + 3 <= Len(req.baseUrl)
             /\ result = <<req.baseUrl[index + 2], req.baseUrl[index + 3]>>
             /\ cacheReads = 0
        ELSE IF StrTruthy(req.body.version)
        THEN /\ top.outcome.kind = "return"
             /\ result = <<"v">> \o req.body.version
             /\ cacheReads = 0
        ELSE Truthy(op.endpoint) =>
             /\ top.outcome.kind = "return"
             /\ cacheReads = 1
             /\ result = <<"v">> \o
                  (IF op.endpoint \in DOMAIN cache /\ cache[op.endpoint].hasVersion
                   THEN NumberText(cache[op.endpoint].version)
                   ELSE IF op.endpoint \in DOMAIN defaultAssistantsVersion
                        THEN NumberText(defaultAssistantsVersion[op.endpoint])
                        ELSE UndefinedText)

\* C3: getOpenAIClient with no endpoint from override, body or query throws
\* 'Endpoint is required', whatever the path and body.version, with no cache
\* read, no version error in its place and no initializer invoked.
C3_EndpointRequiredFirst ==
  (/\ op.name = "getOpenAIClient"
   /\ op.endpoint = undefined
   /\ req.body.endpoint = undefined
   /\ req.query.endpoint = undefined) =>
     /\ cacheReads = 0
     /\ top.init.name = "none"
     /\ top.pc = "settled" =>
          /\ top.outcome.kind = "throw"
          /\ top.outcome.error.name = "Endpoint is required"

\* C4: listAssistantsForAzure starts one listing call per assistant group, the
\* i-th for the i-th group, all of them in the loop before any is awaited (no
\* state holds some of them but not all), and returns only once all have
\* settled.
C4_FanOut ==
  (op.name = "fetchAssistants" /\ req.query.endpoint = azureAssistants) =>
     /\ top.pc \in {"start", "cache", "version"} => calls = <<>>
     /\ top.pc = "all" =>
          /\ Len(calls) = Len(azureConfig.assistantGroups)
          /\ \A i \in 1..Len(calls) : calls[i].group = azureConfig.assistantGroups[i]
     /\ AzureReturned =>
          /\ Len(calls) = Len(azureConfig.assistantGroups)
          /\ \A i \in 1..Len(calls) : calls[i].pc = "settled"

C4_Witness ==
  /\ AzureReturned
  /\ Len(azureConfig.assistantGroups) = 2
  /\ Len(calls) = 2
  /\ completed = <<2, 1>>

\* The ids of the vendor's pages, call after call from call i on.
RECURSIVE PageIds(_, _)
PageIds(cs, i) ==
  IF i > Len(cs) THEN <<>>
  ELSE [k \in 1..Len(cs[i].page.data) |-> cs[i].page.data[k].id] \o PageIds(cs, i + 1)

\* C5: in whatever order the calls complete, the returned envelope lists the
\* groups' records in assistantGroups order, each group's in the vendor's
\* order; first_id and last_id are the ids of its first and last record
\* (undefined when there is none), object is 'list' and has_more is false.
C5_MergedInGroupOrder ==
  AzureReturned =>
     LET body == top.outcome.value
         n == Len(body.data)
     IN /\ [j \in 1..n |-> body.data[j].id] = PageIds(calls, 1)
        /\ body.first_id = (IF n = 0 THEN undefinedId ELSE body.data[1].id)
        /\ body.last_id = (IF n = 0 THEN undefinedId ELSE body.data[n].id)
        /\ body.object = "list"
        /\ body.has_more = FALSE

C5_Witness ==
  /\ AzureReturned
  /\ completed = <<2, 1>>
  /\ Len(calls[1].page.data) = 2
  /\ Len(calls[2].page.data) = 2
  /\ calls[1].page.body.has_more

\* The model name the remapping rule gives a raw model of a group.
ExpectedModel(group, raw) ==
  IF raw = group.deploymentName THEN group.models[1].name
  ELSE IF \E k \in 1..Len(group.models) : group.models[k].deploymentName = raw
       THEN LET k == CHOOSE k \in 1..Len(group.models) :
                       /\ group.models[k].deploymentName = raw
                       /\ \A j \in 1..(k - 1) : group.models[j].deploymentName # raw
            IN group.models[k].name
       ELSE group.models[1].name

\* C6: every record the vendor returned for group i is in the merged list,
\* unchanged but for model, which is the group's first model name when the raw
\* model is the group's default deployment, else the first model name of the
\* group's table whose deployment is the raw model, else the group's first
\* model name; group {d1; gpt-a: d1, gpt-b: d2} maps raw d2 to gpt-b.
C6_Remap ==
  AzureReturned =>
     \A i \in 1..Len(calls) : \A k \in 1..Len(calls[i].page.data) :
        LET raw == calls[i].page.data[k]
            body == top.outcome.value
        IN /\ \E j \in 1..Len(body.data) :
                body.data[j] = [raw EXCEPT !.model = ExpectedModel(GroupOf(i), raw.model)]
           /\ (azureConfig.assistantGroups[i] = "g1" /\ raw.model = "d2") =>
                \E j \in 1..Len(body.data) :
                   body.data[j] = [id |-> raw.id, model |-> "gpt-b", object |-> raw.object]

C6_Witness ==
  /\ AzureReturned
  /\ azureConfig.assistantGroups = <<"g2", "g1">>
  /\ \E k \in 1..Len(calls[1].page.data) : calls[1].page.data[k].model = "d2"
  /\ \E k \in 1..Len(calls[1].page.data) : calls[1].page.data[k].model = "dx"
  /\ \E k \in 1..Len(calls[2].page.data) : calls[2].page.data[k].model = "d2"

\* C7: with an endpoint that is given but is neither of the two known ones,
\* getOpenAIClient and fetchAssistants raise nothing and return undefined, no
\* initializer is invoked and no listing call is started.
C7_UnrecognizedEndpoint ==
  LET endpoint == IF op.name = "getOpenAIClient" THEN ClientEndpoint(req, op.endpoint)
                  ELSE req.query.endpoint
  IN (/\ op.name \in {"getOpenAIClient", "fetchAssistants"}
      /\ Truthy(endpoint)
      /\ endpoint \notin {assistants, azureAssistants}) =>
        /\ top.init.name = "none"
        /\ top.pc # "init"
        /\ calls = <<>>
        /\ top.pc = "settled" =>
             /\ top.outcome.kind = "return"
             /\ top.outcome.value = undefined

C7_Witness ==
  /\ op.name = "getOpenAIClient"
  /\ op.endpoint = undefined
  /\ req.body.endpoint = "custom"
  /\ req.query.endpoint = azureAssistants
  /\ cacheReads = 1
  /\ top.pc = "settled"
  /\ top.outcome.kind = "return"

\* C8: in listAssistantsForAzure the initializer invoked for group i finds
\* req.body.model equal to group i's first model name, under every interleaving.
C8_InitSeesOwnModel ==
  (op.name = "fetchAssistants" /\ top.endpoint = azureAssistants) =>
     \A i \in 1..Len(calls) :
        calls[i].init.name # "none" => calls[i].init.model = GroupOf(i).models[1].name

C10_VersionResolvedOnce ==
  op.name = "fetchAssistants" =>
     /\ cacheReads <= 1
     /\ \A i \in 1..Len(calls) :
          calls[i].init.name # "none" =>
             /\ top.gcv.kind = "return"
             /\ calls[i].init.version = top.gcv.value

====
